---- MODULE Spec2Model ----
(***************************************************************************)
(* The OpenWire relay as a state machine.  Two implementations share the   *)
(* protocol: the Cloudflare worker (openwire-relay/src/index.js, class     *)
(* RelayRoom) and the Node server (openwire-relay/server.js).  The         *)
(* variable relay says which one runs; it is fixed by Init.                *)
(*                                                                         *)
(* One action is one complete run of one event listener: the "message"     *)
(* listener for one request kind, the "close" listener, the "error"        *)
(* listener, or the acceptance of a connection.  JavaScript runs each      *)
(* listener to completion, so every action is atomic.                      *)
(***************************************************************************)
EXTENDS Integers, Sequences, FiniteSets, TLC

(* ------------------------------ bounds --------------------------------- *)

\* Spec: arbitrary clients.
MaxConns == 2       \* connection slots that can be live at once
MaxPeerIds == 2     \* distinct peer identifiers in play
MaxRooms == 1       \* distinct room identifiers in play

ConnSet(n) == {"c" \o ToString(i) : i \in 1..n}
PeerIdSet(n) == {"p" \o ToString(i) : i \in 1..n}
RoomIdSet(n) == {"room-" \o ToString(i) : i \in 1..n}

\* msg.nick / msg.name / msg.data as sent by clients; "" stands for a
\* missing (falsy) field.
NickInputs == {"Ann"}
NameInputs == {"Club"}
DataInputs == {"hi"}

Relays == {"worker", "node"}

(* ------------------------------ state ---------------------------------- *)

VARIABLES
    relay,      \* "worker" (src/index.js) or "node" (server.js)
    pool,       \* the run's identifiers and options: [peerIds, roomIds, audit,
                \* views] (fixed by Init)
    conn,       \* per connection slot: "idle" | "open" | "closing"
    peerInfo,   \* per connection: the listener closure's peerInfo (NoPeer = null)
    peers,      \* keys of the Map peers, in insertion order
    rooms,      \* the Map rooms, as a sequence of entries in insertion order
    req,        \* the event just handled (observation)
    out,        \* the writes the last handler attempted, in order (observation)
    seen,       \* what the last handler found when it started (observation)
    hist,       \* history of creations, invites and joins (observation)
    view,       \* per connection: the peer list its web client has built from
                \* the events written to it (ChatRoom, onEvent)
    client      \* one web client's socket module (lib/socket.js)

vars == <<relay, pool, conn, peerInfo, peers, rooms, req, out, seen, hist,
          view, client>>

\* null peerInfo.  A real peerInfo never has an empty peer_id (msg.peer_id ||
\* randomUUID()), so the empty record is free to stand for null.
NoPeer == [peer_id |-> "", nick |-> "", rooms |-> {}]

\* rooms.get(room_id) of an unknown room.
NoRoom == [room_id |-> "", name |-> "", members |-> {}]

\* "no connection": the absent exclude argument of broadcast/broadcastToRoom.
NoConn == ""

\* lib/socket.js: sockets the module may create in one run, and calls of
\* connect the application may make.
MaxSockets == 3
MaxLogins == 2

\* ws = null
NoSocket == 0

\* lib/socket.js after module load: let ws = null; let listeners = [];
\* let reconnectTimer = null.  The fields:
\*   app            what the application called last: "new" (nothing),
\*                  "in" (connect), "out" (disconnect);
\*   logins         how many times the application has called connect;
\*   ws             the socket the module variable ws refers to, or NoSocket;
\*   sockets        readyState of each WebSocket created: "none" (not
\*                  created), "connecting", "open", "closing", "closed";
\*   listeners      length of the array listeners (every element is the one
\*                  onEvent callback the application passed);
\*   timers         reconnect timers that are pending;
\*   reconnectTimer whether the id in reconnectTimer is that of a pending timer;
\*   dispatched     the last event handed to the listeners and the number of
\*                  calls of onEvent it caused (observation).
ClientStart ==
    [app |-> "new", logins |-> 0, ws |-> NoSocket,
     sockets |-> [s \in 1..MaxSockets |-> "none"],
     listeners |-> 0, timers |-> 0, reconnectTimer |-> FALSE,
     dispatched |-> [type |-> "none", count |-> 0]]

(* ------------------------------ helpers -------------------------------- *)

\* The connection slots, the peer ids and the room ids of this run.
Conns == DOMAIN conn
PeerIds == pool.peerIds
RoomIds == pool.roomIds

Range(s) == {s[i] : i \in 1..Len(s)}

\* Map.delete on the ordered key list.
MapDelete(s, k) == SelectSeq(s, LAMBDA x : x # k)

\* Map.set on the ordered key list: an existing key keeps its position.
MapSet(s, k) == IF k \in Range(s) THEN s ELSE Append(s, k)

HasRoom(rs, id) == \E i \in 1..Len(rs) : rs[i].room_id = id

GetRoom(rs, id) == rs[CHOOSE i \in 1..Len(rs) : rs[i].room_id = id]

\* ws.readyState === OPEN (node); ws.send does not throw (worker).
Writable(c) == conn[c] = "open"

\* send(ws, obj): one attempted write; it reaches the wire iff ws is writable.
Send(c, ev) == <<[to |-> c, ev |-> ev, ok |-> Writable(c)]>>

\* Mutant of Broadcast: the exclusion is lost.
Broadcast_All(ps, ev, exclude) ==
    [i \in 1..Len(ps) |-> [to |-> ps[i], ev |-> ev, ok |-> Writable(ps[i])]]

\* Mutant of Broadcast: a failed write ends the loop, as if the exception
\* of ws.send were not caught.
Broadcast_StopAtDead(ps, ev, exclude) ==
    LET targets == SelectSeq(ps, LAMBDA c : c # exclude)
        dead == {i \in 1..Len(targets) : ~Writable(targets[i])}
        last == IF dead = {} THEN Len(targets)
                ELSE CHOOSE i \in dead : \A j \in dead : i <= j
    IN  [i \in 1..last |->
            [to |-> targets[i], ev |-> ev, ok |-> Writable(targets[i])]]

\* broadcast(obj, exclude): every key of peers except exclude, in Map order.
Broadcast(ps, ev, exclude) ==
    LET targets == SelectSeq(ps, LAMBDA c : c # exclude)
    IN  [i \in 1..Len(targets) |->
            [to |-> targets[i], ev |-> ev, ok |-> Writable(targets[i])]]

\* Mutant of BroadcastToRoom: the membership test is lost, so every
\* registered connection but exclude is addressed.
BroadcastToRoom_Everyone(rs, ps, pinfo, room_id, ev, exclude) ==
    IF ~HasRoom(rs, room_id) THEN <<>>
    ELSE LET targets == SelectSeq(ps, LAMBDA c : c # exclude)
         IN  [i \in 1..Len(targets) |->
                 [to |-> targets[i], ev |-> ev, ok |-> Writable(targets[i])]]

\* broadcastToRoom(room_id, obj, exclude): nothing when the room is unknown;
\* otherwise every key of peers, except exclude, whose peer_id is a member.
BroadcastToRoom(rs, ps, pinfo, room_id, ev, exclude) ==
    IF ~HasRoom(rs, room_id) THEN <<>>
    ELSE LET room == GetRoom(rs, room_id)
             targets == SelectSeq(ps, LAMBDA c :
                            c # exclude /\ pinfo[c].peer_id \in room.members)
         IN  [i \in 1..Len(targets) |->
                 [to |-> targets[i], ev |-> ev, ok |-> Writable(targets[i])]]

\* peerList(): the values of peers in Map order.
PeerList(ps, pinfo) ==
    [i \in 1..Len(ps) |->
        [peer_id |-> pinfo[ps[i]].peer_id, nick |-> pinfo[ps[i]].nick]]

\* roomList(): the entries of rooms in Map order, members as a count.
RoomList(rs) ==
    [i \in 1..Len(rs) |->
        [room_id |-> rs[i].room_id, name |-> rs[i].name,
         members |-> Cardinality(rs[i].members)]]

(* ------------------------------ init ----------------------------------- *)

\* The relay after construction, before any connection is accepted; the
\* web client's socket module after load.
StartWith(cs, ps, rs, audit, views) ==
    /\ relay \in Relays
    /\ pool = [peerIds |-> ps, roomIds |-> rs, audit |-> audit, views |-> views]
    /\ conn = [c \in cs |-> "idle"]
    /\ peerInfo = [c \in cs |-> NoPeer]
    /\ peers = <<>>
    /\ rooms = <<>>
    /\ req = [type |-> "init"]
    /\ out = <<>>
    /\ seen = [peer |-> NoPeer, room |-> NoRoom]
    /\ hist = [creator |-> {}, invited |-> {}, used |-> {}, joined |-> {}]
    /\ view = [c \in cs |-> {}]
    /\ client = ClientStart

\* The same, without the clients' peer lists.
Start(cs, ps, rs, audit) == StartWith(cs, ps, rs, audit, FALSE)

Init == Start(ConnSet(MaxConns), PeerIdSet(MaxPeerIds), RoomIdSet(MaxRooms), FALSE)

(* ------------------------------ actions -------------------------------- *)

\* fetch -> handleSession(server) / wss.on("connection"): a new socket is
\* accepted and its listener closure starts with peerInfo = null.
Connect(c) ==
    /\ conn[c] = "idle"
    /\ conn' = [conn EXCEPT ![c] = "open"]
    /\ peerInfo' = [peerInfo EXCEPT ![c] = NoPeer]
    /\ req' = [type |-> "connect", ws |-> c]
    /\ out' = <<>>
    /\ UNCHANGED <<relay, pool, peers, rooms>>

(* ---- join ---- *)

\* String.prototype.slice(0, n)
Slice(s, n) == IF Len(s) <= n THEN s ELSE SubSeq(s, 1, n)

NickLimit == 24
NameLimit == 50

\* Mutant of NickLoop: the counter is advanced before it is used, so the
\* first suffix tried is 3.
RECURSIVE NickLoop_Skip(_, _, _, _)
NickLoop_Skip(base, nick, counter, taken) ==
    IF nick \in taken
    THEN NickLoop_Skip(base, base \o ToString(counter + 1), counter + 1, taken)
    ELSE nick

\* while (takenNicks.has(nick)) nick = `${base}${counter++}`;
RECURSIVE NickLoop(_, _, _, _)
NickLoop(base, nick, counter, taken) ==
    IF nick \in taken
    THEN NickLoop(base, base \o ToString(counter), counter + 1, taken)
    ELSE nick

\* Mutant of NickLoopWithin: the counter is never incremented, so the loop
\* tries the same suffix again and again.
RECURSIVE NickLoopWithin_Stuck(_, _, _, _, _)
NickLoopWithin_Stuck(base, nick, counter, taken, fuel) ==
    IF nick \notin taken THEN [done |-> TRUE, nick |-> nick]
    ELSE IF fuel = 0 THEN [done |-> FALSE, nick |-> nick]
    ELSE NickLoopWithin_Stuck(base, base \o ToString(counter), counter, taken, fuel - 1)

\* The same loop run for at most fuel iterations: done says whether the
\* loop condition became false within them, nick is the value then held.
RECURSIVE NickLoopWithin(_, _, _, _, _)
NickLoopWithin(base, nick, counter, taken, fuel) ==
    IF nick \notin taken THEN [done |-> TRUE, nick |-> nick]
    ELSE IF fuel = 0 THEN [done |-> FALSE, nick |-> nick]
    ELSE NickLoopWithin(base, base \o ToString(counter), counter + 1, taken, fuel - 1)

\* Mutant of AssignNick: the uniqueness loop is lost.
AssignNick_NoSuffix(nickIn) ==
    Slice(IF nickIn # "" THEN nickIn ELSE "Anonymous", NickLimit)

\* The nick the join handler of relay rl assigns.  Worker: default,
\* truncate, then make unique against the nicks of all values of peers.
\* Node: default only.
NickOf(rl, nickIn) ==
    IF rl = "worker"
    THEN LET nick == Slice(IF nickIn # "" THEN nickIn ELSE "Anonymous", NickLimit)
             takenNicks == {peerInfo[c].nick : c \in Range(peers)}
         IN  NickLoop(nick, nick, 2, takenNicks)
    ELSE IF nickIn # "" THEN nickIn ELSE "Anonymous"

\* The nick the join handler assigns in this run.
AssignNick(nickIn) == NickOf(relay, nickIn)

\* Peer ids that occur anywhere in the state.
UsedPeerIds ==
    {peerInfo[c].peer_id : c \in Conns}
        \cup UNION {rooms[i].members : i \in 1..Len(rooms)}

\* crypto.randomUUID(): an identifier that occurs nowhere in the state.
FreshPeerIds == PeerIds \ UsedPeerIds

\* The welcome event of relay rl: the worker reports the final nick, the
\* node relay does not carry a nick field.
WelcomeOf(rl, peer_id, nick, ps, pinfo) ==
    IF rl = "worker"
    THEN [type |-> "welcome", peer_id |-> peer_id, nick |-> nick,
          peers |-> PeerList(ps, pinfo), rooms |-> RoomList(rooms)]
    ELSE [type |-> "welcome", peer_id |-> peer_id,
          peers |-> PeerList(ps, pinfo), rooms |-> RoomList(rooms)]

\* Mutant of Welcome: the event is built from the registry as it was before
\* the handler registered the joiner.
Welcome_Before(peer_id, nick, ps, pinfo) ==
    WelcomeOf(relay, peer_id, nick, peers, peerInfo)

\* The welcome event of this run.
Welcome(peer_id, nick, ps, pinfo) == WelcomeOf(relay, peer_id, nick, ps, pinfo)

\* case "join": no check that the connection already has a session; the
\* closure's peerInfo is replaced by a new object with an empty rooms set.
JoinAs(c, idIn, peer_id, nickIn) ==
    LET nick == AssignNick(nickIn)
        pinfo == [peerInfo EXCEPT ![c] =
                     [peer_id |-> peer_id, nick |-> nick, rooms |-> {}]]
        ps == MapSet(peers, c)
    IN  /\ peerInfo' = pinfo
        /\ peers' = ps
        /\ req' = [type |-> "join", ws |-> c, peer_id |-> idIn, nick |-> nickIn]
        /\ out' = Send(c, Welcome(peer_id, nick, ps, pinfo))
                    \o Broadcast(ps, [type |-> "peer_joined",
                                      peer_id |-> peer_id, nick |-> nick], c)
        /\ UNCHANGED <<relay, pool, conn, rooms>>

\* idIn = "" is a join without peer_id: the relay generates one.
Join(c, idIn, nickIn) ==
    /\ conn[c] = "open"
    /\ IF idIn # ""
       THEN JoinAs(c, idIn, idIn, nickIn)
       ELSE /\ FreshPeerIds # {}
            /\ JoinAs(c, idIn, CHOOSE p \in FreshPeerIds : TRUE, nickIn)

(* ---- rooms ---- *)

\* Room ids that occur anywhere in the state (live rooms and the room ids
\* still held in some peerInfo.rooms).
UsedRoomIds ==
    {rooms[i].room_id : i \in 1..Len(rooms)}
        \cup UNION {peerInfo[c].rooms : c \in Conns}

\* Mutant of FreshRoomIds: the generated id may be one that is in use.
FreshRoomIds_Any == RoomIds

\* "room-" + crypto.randomUUID().slice(0, 16): an id that occurs nowhere.
FreshRoomIds == RoomIds \ UsedRoomIds

\* (msg.name || "Untitled").slice(0, 50) in the worker;
\* msg.name || "Unnamed Room" in the node relay.
RoomNameOf(rl, nameIn) ==
    IF rl = "worker"
    THEN Slice(IF nameIn # "" THEN nameIn ELSE "Untitled", NameLimit)
    ELSE IF nameIn # "" THEN nameIn ELSE "Unnamed Room"

\* The name room_create stores in this run.
RoomName(nameIn) == RoomNameOf(relay, nameIn)

\* Mutant of SetMembers: the change of the members set is lost.
SetMembers_Same(rs, room_id, ms) == rs

\* rooms with the members of room_id replaced.
SetMembers(rs, room_id, ms) ==
    [i \in 1..Len(rs) |->
        IF rs[i].room_id = room_id THEN [rs[i] EXCEPT !.members = ms] ELSE rs[i]]

\* rooms.delete(room_id)
DeleteRoom(rs, room_id) == SelectSeq(rs, LAMBDA r : r.room_id # room_id)

\* Mutant of LeaveRooms: the emptied room is not deleted.
LeaveRooms_KeepEmpty(rs, peer_id, room_id) ==
    IF ~HasRoom(rs, room_id) THEN rs
    ELSE SetMembers(rs, room_id, GetRoom(rs, room_id).members \ {peer_id})

\* The rooms Map after leaveRoom(peerInfo, room_id): nothing for an unknown
\* room; else the peer is removed and the room deleted if it is then empty.
LeaveRooms(rs, peer_id, room_id) ==
    IF ~HasRoom(rs, room_id) THEN rs
    ELSE LET ms == GetRoom(rs, room_id).members \ {peer_id}
         IN  IF ms = {} THEN DeleteRoom(rs, room_id)
                        ELSE SetMembers(rs, room_id, ms)

\* Mutant of LeaveMine: peerInfo.rooms.delete(room_id) is lost.
LeaveMine_Keep(rs, mine, room_id) == mine

\* peerInfo.rooms after leaveRoom: untouched when the room is unknown.
LeaveMine(rs, mine, room_id) ==
    IF ~HasRoom(rs, room_id) THEN mine ELSE mine \ {room_id}

\* What leaveRoom broadcasts: room_peer_left to the room when the room
\* existed, is still non-empty and the call is not silent.
LeaveOut(rs, ps, pinfo, me, room_id, silent) ==
    LET after == LeaveRooms(rs, me.peer_id, room_id)
    IN  IF HasRoom(rs, room_id) /\ HasRoom(after, room_id) /\ ~silent
        THEN BroadcastToRoom(after, ps, pinfo, room_id,
                 [type |-> "room_peer_left", room_id |-> room_id,
                  peer_id |-> me.peer_id, nick |-> me.nick], NoConn)
        ELSE <<>>

\* Mutant of LeaveAll: the loop stops after the first room, as if deleting
\* from peerInfo.rooms while iterating it ended the iteration.
LeaveAll_First(rs, peer_id, ids) ==
    IF ids = {} THEN rs
    ELSE LeaveRooms(rs, peer_id, CHOOSE x \in ids : TRUE)

\* The close listener's loop: leaveRoom(peerInfo, room_id, true) for every
\* room_id of peerInfo.rooms.  The calls touch pairwise different rooms and
\* broadcast nothing, so the iteration order does not show in the result.
RECURSIVE LeaveAll(_, _, _)
LeaveAll(rs, peer_id, ids) ==
    IF ids = {} THEN rs
    ELSE LET id == CHOOSE x \in ids : TRUE
         IN  LeaveAll(LeaveRooms(rs, peer_id, id), peer_id, ids \ {id})

\* A request that the handler drops: nothing changes, nothing is written.
Dropped(r) ==
    /\ req' = r
    /\ out' = <<>>
    /\ UNCHANGED <<relay, pool, conn, peerInfo, peers, rooms>>

\* case "message"
Message(c, data) ==
    /\ conn[c] = "open"
    /\ LET r == [type |-> "message", ws |-> c, data |-> data]
       IN  IF peerInfo[c] = NoPeer THEN Dropped(r)
           ELSE /\ req' = r
                /\ out' = Broadcast(peers,
                              [type |-> "message", from |-> peerInfo[c].peer_id,
                               nick |-> peerInfo[c].nick, data |-> data], c)
                /\ UNCHANGED <<relay, pool, conn, peerInfo, peers, rooms>>

\* case "room_create"
RoomCreate(c, nameIn) ==
    /\ conn[c] = "open"
    /\ LET r == [type |-> "room_create", ws |-> c, name |-> nameIn]
       IN  IF peerInfo[c] = NoPeer THEN Dropped(r)
           ELSE /\ FreshRoomIds # {}
                /\ LET room_id == CHOOSE x \in FreshRoomIds : TRUE
                       name == RoomName(nameIn)
                       rs == Append(rooms, [room_id |-> room_id, name |-> name,
                                            members |-> {peerInfo[c].peer_id}])
                       pinfo == [peerInfo EXCEPT ![c].rooms = @ \cup {room_id}]
                   IN  /\ rooms' = rs
                       /\ peerInfo' = pinfo
                       /\ req' = r
                       /\ out' = Send(c, [type |-> "room_created",
                                          room_id |-> room_id, name |-> name])
                                   \o Broadcast(peers,
                                         [type |-> "peers",
                                          peers |-> PeerList(peers, pinfo),
                                          rooms |-> RoomList(rs)], NoConn)
                       /\ UNCHANGED <<relay, pool, conn, peers>>

\* The text of the error a room_join on an unknown room gets from relay rl.
NotFoundMessageOf(rl, room_id) ==
    IF rl = "worker" THEN "Room not found"
    ELSE "Room " \o room_id \o " not found"

\* The text of that error in this run.
NotFoundMessage(room_id) == NotFoundMessageOf(relay, room_id)

\* Mutant of RoomJoin: peerInfo.rooms.add(msg.room_id) runs before the room
\* is looked up, so a join of an unknown room still records the room id.
RoomJoin_AddsFirst(c, room_id) ==
    /\ conn[c] = "open"
    /\ LET r == [type |-> "room_join", ws |-> c, room_id |-> room_id]
           pinfo == [peerInfo EXCEPT ![c].rooms = @ \cup {room_id}]
       IN  IF peerInfo[c] = NoPeer THEN Dropped(r)
           ELSE IF ~HasRoom(rooms, room_id)
           THEN /\ req' = r
                /\ peerInfo' = pinfo
                /\ out' = Send(c, [type |-> "error",
                                   message |-> NotFoundMessage(room_id)])
                /\ UNCHANGED <<relay, pool, conn, peers, rooms>>
           ELSE LET me == peerInfo[c]
                    rs == SetMembers(rooms, room_id,
                              GetRoom(rooms, room_id).members \cup {me.peer_id})
                IN  /\ rooms' = rs
                    /\ peerInfo' = pinfo
                    /\ req' = r
                    /\ out' = BroadcastToRoom(rs, peers, pinfo, room_id,
                                  [type |-> "room_peer_joined", room_id |-> room_id,
                                   peer_id |-> me.peer_id, nick |-> me.nick], NoConn)
                                \o Send(c, [type |-> "room_joined", room_id |-> room_id,
                                            name |-> GetRoom(rooms, room_id).name])
                    /\ UNCHANGED <<relay, pool, conn, peers>>

\* Mutant of RoomJoin: joining toggles the membership, so a member that
\* joins again is taken out of the room.
RoomJoin_Toggle(c, room_id) ==
    /\ conn[c] = "open"
    /\ LET r == [type |-> "room_join", ws |-> c, room_id |-> room_id]
       IN  IF peerInfo[c] = NoPeer THEN Dropped(r)
           ELSE IF ~HasRoom(rooms, room_id)
           THEN /\ req' = r
                /\ out' = Send(c, [type |-> "error",
                                   message |-> NotFoundMessage(room_id)])
                /\ UNCHANGED <<relay, pool, conn, peerInfo, peers, rooms>>
           ELSE LET me == peerInfo[c]
                    old == GetRoom(rooms, room_id).members
                    rs == SetMembers(rooms, room_id,
                              IF me.peer_id \in old THEN old \ {me.peer_id}
                              ELSE old \cup {me.peer_id})
                    pinfo == [peerInfo EXCEPT ![c].rooms =
                                 IF room_id \in @ THEN @ \ {room_id}
                                 ELSE @ \cup {room_id}]
                IN  /\ rooms' = rs
                    /\ peerInfo' = pinfo
                    /\ req' = r
                    /\ out' = BroadcastToRoom(rs, peers, pinfo, room_id,
                                  [type |-> "room_peer_joined", room_id |-> room_id,
                                   peer_id |-> me.peer_id, nick |-> me.nick], NoConn)
                                \o Send(c, [type |-> "room_joined", room_id |-> room_id,
                                            name |-> GetRoom(rooms, room_id).name])
                    /\ UNCHANGED <<relay, pool, conn, peers>>

\* case "room_join"
RoomJoin(c, room_id) ==
    /\ conn[c] = "open"
    /\ LET r == [type |-> "room_join", ws |-> c, room_id |-> room_id]
       IN  IF peerInfo[c] = NoPeer THEN Dropped(r)
           ELSE IF ~HasRoom(rooms, room_id)
           THEN /\ req' = r
                /\ out' = Send(c, [type |-> "error",
                                   message |-> NotFoundMessage(room_id)])
                /\ UNCHANGED <<relay, pool, conn, peerInfo, peers, rooms>>
           ELSE LET me == peerInfo[c]
                    rs == SetMembers(rooms, room_id,
                              GetRoom(rooms, room_id).members \cup {me.peer_id})
                    pinfo == [peerInfo EXCEPT ![c].rooms = @ \cup {room_id}]
                IN  /\ rooms' = rs
                    /\ peerInfo' = pinfo
                    /\ req' = r
                    /\ out' = BroadcastToRoom(rs, peers, pinfo, room_id,
                                  [type |-> "room_peer_joined", room_id |-> room_id,
                                   peer_id |-> me.peer_id, nick |-> me.nick], NoConn)
                                \o Send(c, [type |-> "room_joined", room_id |-> room_id,
                                            name |-> GetRoom(rooms, room_id).name])
                    /\ UNCHANGED <<relay, pool, conn, peers>>

\* Mutant of InviteTarget: the peer_id comparison is lost, so the loop stops
\* at the first key of peers.
InviteTarget_First(ps, pinfo, peer_id) ==
    IF ps = <<>> THEN NoConn ELSE Head(ps)

\* The connection the room_invite loop stops at: the first key of peers, in
\* Map order, whose peer_id is the target; NoConn when there is none.
InviteTarget(ps, pinfo, peer_id) ==
    LET hits == SelectSeq(ps, LAMBDA x : pinfo[x].peer_id = peer_id)
    IN  IF hits = <<>> THEN NoConn ELSE Head(hits)

\* case "room_invite"
RoomInvite(c, room_id, peer_id) ==
    /\ conn[c] = "open"
    /\ LET r == [type |-> "room_invite", ws |-> c, room_id |-> room_id,
                 peer_id |-> peer_id]
           target == InviteTarget(peers, peerInfo, peer_id)
       IN  IF peerInfo[c] = NoPeer \/ ~HasRoom(rooms, room_id) \/ target = NoConn
           THEN Dropped(r)
           ELSE /\ req' = r
                /\ out' = Send(target,
                              [type |-> "room_invite", room_id |-> room_id,
                               room_name |-> GetRoom(rooms, room_id).name,
                               from |-> peerInfo[c].peer_id,
                               from_nick |-> peerInfo[c].nick])
                /\ UNCHANGED <<relay, pool, conn, peerInfo, peers, rooms>>

\* case "room_message"
RoomMessage(c, room_id, data) ==
    /\ conn[c] = "open"
    /\ LET r == [type |-> "room_message", ws |-> c, room_id |-> room_id,
                 data |-> data]
       IN  IF peerInfo[c] = NoPeer THEN Dropped(r)
           ELSE /\ req' = r
                /\ out' = BroadcastToRoom(rooms, peers, peerInfo, room_id,
                              [type |-> "room_message", room_id |-> room_id,
                               from |-> peerInfo[c].peer_id,
                               nick |-> peerInfo[c].nick, data |-> data], c)
                /\ UNCHANGED <<relay, pool, conn, peerInfo, peers, rooms>>

\* case "room_leave": leaveRoom(peerInfo, msg.room_id)
RoomLeave(c, room_id) ==
    /\ conn[c] = "open"
    /\ LET r == [type |-> "room_leave", ws |-> c, room_id |-> room_id]
       IN  IF peerInfo[c] = NoPeer THEN Dropped(r)
           ELSE LET me == peerInfo[c]
                    pinfo == [peerInfo EXCEPT ![c].rooms =
                                 LeaveMine(rooms, @, room_id)]
                IN  /\ rooms' = LeaveRooms(rooms, me.peer_id, room_id)
                    /\ peerInfo' = pinfo
                    /\ req' = r
                    /\ out' = LeaveOut(rooms, peers, pinfo, me, room_id, FALSE)
                    /\ UNCHANGED <<relay, pool, conn, peers>>

\* case "room_list": answered with or without a session.
RoomListReq(c) ==
    /\ conn[c] = "open"
    /\ req' = [type |-> "room_list", ws |-> c]
    /\ out' = Send(c, [type |-> "room_list", rooms |-> RoomList(rooms)])
    /\ UNCHANGED <<relay, pool, conn, peerInfo, peers, rooms>>

\* Mutant of Malformed: the frame is answered with an error event.
Malformed_Error(c) ==
    /\ conn[c] = "open"
    /\ req' = [type |-> "malformed", ws |-> c]
    /\ out' = Send(c, [type |-> "error", message |-> "Bad frame"])
    /\ UNCHANGED <<relay, pool, conn, peerInfo, peers, rooms>>

\* A frame that JSON.parse rejects, or whose type no case matches.
Malformed(c) ==
    /\ conn[c] = "open"
    /\ Dropped([type |-> "malformed", ws |-> c])

(* ---- transport events ---- *)

\* The socket leaves readyState OPEN (the peer closes or the link drops);
\* the close listener has not run yet.  No request arrives afterwards.
BeginClose(c) ==
    /\ conn[c] = "open"
    /\ conn' = [conn EXCEPT ![c] = "closing"]
    /\ req' = [type |-> "begin_close", ws |-> c]
    /\ out' = <<>>
    /\ UNCHANGED <<relay, pool, peerInfo, peers, rooms>>

\* The close listener.  The socket object is finished with afterwards and
\* its slot is free for a new connection.
Close(c) ==
    /\ conn[c] = "closing"
    /\ conn' = [conn EXCEPT ![c] = "idle"]
    /\ req' = [type |-> "close", ws |-> c, peer_id |-> peerInfo[c].peer_id]
    /\ peerInfo' = [peerInfo EXCEPT ![c] = NoPeer]
    /\ IF peerInfo[c] = NoPeer
       THEN /\ out' = <<>>
            /\ UNCHANGED <<relay, pool, peers, rooms>>
       ELSE LET me == peerInfo[c]
                ps == MapDelete(peers, c)
            IN  /\ rooms' = LeaveAll(rooms, me.peer_id, me.rooms)
                /\ peers' = ps
                /\ out' = Broadcast(ps, [type |-> "peer_left",
                                         peer_id |-> me.peer_id,
                                         nick |-> me.nick], NoConn)
                /\ UNCHANGED <<relay, pool>>

\* The error listener: the worker drops the socket from peers and nothing
\* else; the node relay's listener is empty.
Error(c) ==
    /\ conn[c] \in {"open", "closing"}
    /\ req' = [type |-> "error", ws |-> c]
    /\ out' = <<>>
    /\ peers' = IF relay = "worker" THEN MapDelete(peers, c) ELSE peers
    /\ UNCHANGED <<relay, pool, conn, peerInfo, rooms>>

(* ------------------------------ history -------------------------------- *)

\* The relay keeps no record of who created a room or who was invited.  The
\* access rules of the specification speak of both, so hist records them
\* from what the handlers did.  Each field is a set of <<room_id, peer_id>>:
\*   creator  the peer whose room_create made the room;
\*   invited  a room_invite for the room reached the peer's connection and
\*            no room_join of that peer has followed it (outstanding);
\*   used     a room_join of the peer consumed an invite for the room;
\*   joined   the peer created the room, or joined it holding an invite or
\*            as its creator, and has not left it or disconnected since.
\* Pairs of a deleted room are forgotten with the room.
HistNext ==
    LET r == req'
        me == peerInfo[r.ws]
        pair == <<r.room_id, me.peer_id>>
        live == {rooms'[i].room_id : i \in 1..Len(rooms')}
        step ==
            CASE r.type = "room_create" /\ out' # <<>> ->
                    LET made == <<out'[1].ev.room_id, me.peer_id>>
                    IN  [hist EXCEPT !.creator = @ \cup {made},
                                     !.joined = @ \cup {made}]
              [] r.type = "room_invite" /\ out' # <<>> /\ out'[1].ok ->
                    [hist EXCEPT !.invited = @ \cup {<<r.room_id, r.peer_id>>}]
              [] r.type = "room_join" /\ me # NoPeer /\ HasRoom(rooms, r.room_id) ->
                    IF pair \in hist.invited
                    THEN [hist EXCEPT !.invited = @ \ {pair},
                                      !.used = @ \cup {pair},
                                      !.joined = @ \cup {pair}]
                    ELSE IF pair \in hist.creator
                    THEN [hist EXCEPT !.joined = @ \cup {pair}]
                    ELSE hist
              [] r.type = "room_leave" /\ me # NoPeer ->
                    [hist EXCEPT !.joined = @ \ {pair}]
              [] r.type = "close" /\ me # NoPeer ->
                    [hist EXCEPT !.joined = @ \ {<<x, me.peer_id>> : x \in me.rooms}]
              [] OTHER -> hist
    IN  [f \in DOMAIN step |-> {x \in step[f] : x[1] \in live}]

\* seen: the peerInfo of the connection and the room the request names, as
\* they were when the handler started.
Seen(r) ==
    [peer |-> peerInfo[r.ws],
     room |-> IF "room_id" \in DOMAIN r /\ HasRoom(rooms, r.room_id)
              THEN GetRoom(rooms, r.room_id) ELSE NoRoom]

\* What a web client's onEvent makes of its peer list (the set of peer ids
\* in the React state peers) for the events evs, in order: welcome and peers
\* replace the list, peer_joined adds an id, peer_left removes it.
RECURSIVE ApplyEvents(_, _)
ApplyEvents(v, evs) ==
    IF evs = <<>> THEN v
    ELSE LET ev == Head(evs)
             w == CASE ev.type \in {"welcome", "peers"} ->
                          {ev.peers[k].peer_id : k \in 1..Len(ev.peers)}
                    [] ev.type = "peer_joined" -> v \cup {ev.peer_id}
                    [] ev.type = "peer_left" -> v \ {ev.peer_id}
                    [] OTHER -> v
         IN  ApplyEvents(w, Tail(evs))

\* The clients' peer lists after the step: each client applies the events
\* that were written to its socket; a connection that is accepted or whose
\* close event ran belongs to a client that starts from nothing.
ViewNext ==
    [c \in Conns |->
        IF req'.type \in {"connect", "close"} /\ req'.ws = c THEN {}
        ELSE LET mine == SelectSeq(out', LAMBDA e : e.to = c /\ e.ok)
             IN  ApplyEvents(view[c], [i \in 1..Len(mine) |-> mine[i].ev])]

\* The observations that go with every step.  hist and view are kept only
\* in a run that asks for them (pool.audit, pool.views); elsewhere they
\* stay empty.  No step of the relay touches the client's socket module.
Record ==
    /\ seen' = Seen(req')
    /\ hist' = IF pool.audit THEN HistNext ELSE hist
    /\ view' = IF pool.views THEN ViewNext ELSE view
    /\ UNCHANGED client

(* ------------------------------ specifications ------------------------ *)

\* Every request kind but join, every transport event, on any connection
\* with any arguments.
Serve ==
    \/ \E c \in Conns : Connect(c) /\ Record
    \/ \E c \in Conns, data \in DataInputs : Message(c, data) /\ Record
    \/ \E c \in Conns, nameIn \in NameInputs : RoomCreate(c, nameIn) /\ Record
    \/ \E c \in Conns, room_id \in RoomIds : RoomJoin(c, room_id) /\ Record
    \/ \E c \in Conns, room_id \in RoomIds, peer_id \in PeerIds :
          RoomInvite(c, room_id, peer_id) /\ Record
    \/ \E c \in Conns, room_id \in RoomIds, data \in DataInputs :
          RoomMessage(c, room_id, data) /\ Record
    \/ \E c \in Conns, room_id \in RoomIds : RoomLeave(c, room_id) /\ Record
    \/ \E c \in Conns : RoomListReq(c) /\ Record
    \/ \E c \in Conns : Malformed(c) /\ Record
    \/ \E c \in Conns : BeginClose(c) /\ Record
    \/ \E c \in Conns : Close(c) /\ Record
    \/ \E c \in Conns : Error(c) /\ Record

\* Arbitrary clients: join at any time, on any open connection, with any
\* peer_id or none.
Next ==
    \/ \E c \in Conns, idIn \in PeerIds \cup {""}, nickIn \in NickInputs :
          Join(c, idIn, nickIn) /\ Record
    \/ Serve

Spec == Init /\ [][Next]_vars

\* Web clients (lib/socket.js): a client sends one join per connection, as
\* the first frame, with a peer_id of its own (generateId()) and its
\* user's nick.  Slot "c<i>" carries peer_id "p<i>" and nick "user<i>".
WebClients == 3
WebRooms == 1

WebPeerId(c) == "p" \o SubSeq(c, 2, Len(c))
WebNick(c) == "user" \o SubSeq(c, 2, Len(c))

WebJoin(c) ==
    /\ peerInfo[c] = NoPeer
    /\ Join(c, WebPeerId(c), WebNick(c))

InitWeb == Start(ConnSet(WebClients), PeerIdSet(WebClients), RoomIdSet(WebRooms), FALSE)

NextWeb ==
    \/ \E c \in Conns : WebJoin(c) /\ Record
    \/ Serve

SpecWeb == InitWeb /\ [][NextWeb]_vars

\* Web clients again, fewer of them, with the history kept.
AuditClients == 2
AuditRooms == 1

InitAudit ==
    Start(ConnSet(AuditClients), PeerIdSet(AuditClients), RoomIdSet(AuditRooms),
          TRUE)

NextAudit ==
    \/ \E c \in Conns : WebJoin(c) /\ Record
    \/ Serve

SpecAudit == InitAudit /\ [][NextAudit]_vars

\* Web clients with more than one room in play: what a request does to the
\* rooms it does not name.
DirClients == 2
DirRooms == 2

InitDir == Start(ConnSet(DirClients), PeerIdSet(DirClients), RoomIdSet(DirRooms), FALSE)

NextDir ==
    \/ \E c \in Conns : WebJoin(c) /\ Record
    \/ Serve

SpecDir == InitDir /\ [][NextDir]_vars

\* The join handler alone, with nicks that meet the length limit: clients
\* connect, join once per connection under an id of their own with any of
\* the nicks below, and go away.  No rooms.
NickClients == 3

Nick24 == "abcdefghijklmnopqrstuvwx"
Nick30 == "abcdefghijklmnopqrstuvwxyz0123"

\* "" is a join without nick.
NickCases == {"", "Ann", Nick24, Nick30}

InitNick == Start(ConnSet(NickClients), PeerIdSet(NickClients), {}, FALSE)

NextNick ==
    \/ \E c \in Conns : Connect(c) /\ Record
    \/ \E c \in Conns, nickIn \in NickCases :
          peerInfo[c] = NoPeer /\ Join(c, WebPeerId(c), nickIn) /\ Record
    \/ \E c \in Conns : BeginClose(c) /\ Record
    \/ \E c \in Conns : Close(c) /\ Record
    \/ \E c \in Conns : Error(c) /\ Record

SpecNick == InitNick /\ [][NextNick]_vars

\* Web clients and the peer lists they keep: clients connect, join once,
\* create a room, and go away; sockets fail.
ViewClients == 3
ViewRooms == 1

InitView ==
    StartWith(ConnSet(ViewClients), PeerIdSet(ViewClients), RoomIdSet(ViewRooms),
              FALSE, TRUE)

NextView ==
    \/ \E c \in Conns : Connect(c) /\ Record
    \/ \E c \in Conns : WebJoin(c) /\ Record
    \/ \E c \in Conns, nameIn \in NameInputs : RoomCreate(c, nameIn) /\ Record
    \/ \E c \in Conns : BeginClose(c) /\ Record
    \/ \E c \in Conns : Close(c) /\ Record
    \/ \E c \in Conns : Error(c) /\ Record

SpecView == InitView /\ [][NextView]_vars

(* ------------------------------ web client ----------------------------- *)

\* lib/socket.js and the browser events of its sockets.  One action is one
\* call of an exported function by the application, one run of a socket's
\* event handler, or one run of a timer callback.  The relay's variables
\* take no part.
relayVars == <<relay, pool, conn, peerInfo, peers, rooms, req, out, seen, hist, view>>

\* The sockets created so far; new WebSocket() takes the next number.
Created(cl) == {s \in 1..MaxSockets : cl.sockets[s] # "none"}

\* The call does not need a socket beyond MaxSockets.
CanConnect(cl) ==
    \/ (cl.ws # NoSocket /\ cl.sockets[cl.ws] = "open")
    \/ Cardinality(Created(cl)) < MaxSockets

\* connect(nick, onEvent): nothing when ws is open; otherwise onEvent is
\* pushed onto listeners and ws becomes a new socket with the handlers set.
ConnectCall(cl) ==
    IF cl.ws # NoSocket /\ cl.sockets[cl.ws] = "open" THEN cl
    ELSE LET s == Cardinality(Created(cl)) + 1
         IN  [cl EXCEPT !.listeners = @ + 1,
                        !.ws = s,
                        !.sockets[s] = "connecting"]

\* ws.onclose: every listener is called with
\* {type: 'disconnected'}, then a reconnect timer is set and its id stored.
OnCloseHandler(cl) ==
    [cl EXCEPT !.dispatched = [type |-> "disconnected", count |-> cl.listeners],
               !.timers = @ + 1,
               !.reconnectTimer = TRUE]

\* The application calls connect (ChatRoom's effect, which runs again after
\* its cleanup).
ClientConnect ==
    /\ client.app \in {"new", "out"}
    /\ client.logins < MaxLogins
    /\ CanConnect(client)
    /\ client' = [ConnectCall(client) EXCEPT !.app = "in", !.logins = @ + 1]
    /\ UNCHANGED relayVars

\* The application calls disconnect (the effect's cleanup): the timer whose
\* id is stored is cleared, listeners is emptied, ws is closed and dropped.
\* close() on a socket that is connecting or open starts its closing
\* handshake; the handlers stay set on the socket.
ClientDisconnect ==
    /\ client.app = "in"
    /\ client' =
          [client EXCEPT
              !.app = "out",
              !.timers = IF client.reconnectTimer THEN @ - 1 ELSE @,
              !.reconnectTimer = FALSE,
              !.listeners = 0,
              !.ws = NoSocket,
              !.sockets = IF client.ws # NoSocket
                             /\ @[client.ws] \in {"connecting", "open"}
                          THEN [@ EXCEPT ![client.ws] = "closing"]
                          ELSE @]
    /\ UNCHANGED relayVars

\* The open event of socket s.  onopen sends the join frame on ws; that
\* changes nothing in the module.
OnOpen(s) ==
    /\ client.sockets[s] = "connecting"
    /\ client' = [client EXCEPT !.sockets[s] = "open"]
    /\ UNCHANGED relayVars

\* A frame from the relay on socket s: onmessage calls every listener.
OnMessage(s) ==
    /\ client.sockets[s] = "open"
    /\ client' = [client EXCEPT
                     !.dispatched = [type |-> "event", count |-> client.listeners]]
    /\ UNCHANGED relayVars

\* The connection of socket s is lost (the relay or the network ends it):
\* its close event runs onclose.
OnLost(s) ==
    /\ client.sockets[s] \in {"connecting", "open"}
    /\ client' = OnCloseHandler([client EXCEPT !.sockets[s] = "closed"])
    /\ UNCHANGED relayVars

\* The closing handshake that close() started on socket s ends: its close
\* event runs onclose.
OnClosed(s) ==
    /\ client.sockets[s] = "closing"
    /\ client' = OnCloseHandler([client EXCEPT !.sockets[s] = "closed"])
    /\ UNCHANGED relayVars

\* A pending reconnect timer fires, the one whose id is stored or an
\* earlier one: connect(nick, onEvent).
ReconnectTimer ==
    /\ client.timers > 0
    /\ CanConnect(client)
    /\ \E stored \in BOOLEAN :
          /\ stored => client.reconnectTimer
          /\ ~stored => client.timers > (IF client.reconnectTimer THEN 1 ELSE 0)
          /\ client' = ConnectCall([client EXCEPT
                           !.timers = @ - 1,
                           !.reconnectTimer = IF stored THEN FALSE ELSE @])
    /\ UNCHANGED relayVars

InitClient == Start(ConnSet(1), PeerIdSet(1), {}, FALSE)

NextClient ==
    \/ ClientConnect
    \/ ClientDisconnect
    \/ \E s \in 1..MaxSockets : OnOpen(s)
    \/ \E s \in 1..MaxSockets : OnMessage(s)
    \/ \E s \in 1..MaxSockets : OnLost(s)
    \/ \E s \in 1..MaxSockets : OnClosed(s)
    \/ ReconnectTimer

SpecClient == InitClient /\ [][NextClient]_vars

(* ------------------------------ vocabulary of the claims --------------- *)

\* The connections that have a session in the registry (the keys of peers).
Registered == Range(peers)

\* The members of a room; empty for an unknown room.
MembersOf(rs, room_id) ==
    IF HasRoom(rs, room_id) THEN GetRoom(rs, room_id).members ELSE {}

LiveRoomIds(rs) == {rs[i].room_id : i \in 1..Len(rs)}

\* The connections the last handler addressed an event of this type to.
Addressed(type) == {out[i].to : i \in {j \in 1..Len(out) : out[j].ev.type = type}}

\* How many events of this type the last handler addressed to c.
CountTo(type, c) ==
    Cardinality({j \in 1..Len(out) : out[j].ev.type = type /\ out[j].to = c})

\* The last step handled a request of this type on a connection that had a
\* session.
Handled(type) == req.type = type /\ seen.peer # NoPeer

(* ------------------------------ C1 ------------------------------------- *)

\* C1: for every connection with a session in the registry and every room
\* id r: r is in the session's rooms iff room r exists and the session's
\* peer_id is in its members.
C1_RegistryMatchesDirectory ==
    \A c \in Registered : \A r \in RoomIds :
        r \in peerInfo[c].rooms
            <=> (HasRoom(rooms, r) /\ peerInfo[c].peer_id \in MembersOf(rooms, r))

(* ------------------------------ C2 ------------------------------------- *)

\* C2: a room_message naming an existing room is addressed to exactly the
\* registered connections, other than the sender's, whose session's peer_id
\* is a member of the room; each gets it once, it is written iff that socket
\* is writable, and nothing else is sent.
C2_RoomMessageFanOut ==
    (Handled("room_message") /\ HasRoom(rooms, req.room_id)) =>
        /\ \A c \in Conns :
              CountTo("room_message", c) =
                  IF /\ c \in Registered
                     /\ c # req.ws
                     /\ peerInfo[c].peer_id \in MembersOf(rooms, req.room_id)
                  THEN 1 ELSE 0
        /\ \A i \in 1..Len(out) :
              /\ out[i].ev.type = "room_message"
              /\ out[i].ev.room_id = req.room_id
              /\ out[i].ev.from = seen.peer.peer_id
              /\ out[i].ok = Writable(out[i].to)

\* A member sent a room_message: another member got it on the wire, and a
\* registered connection outside the room got nothing.
C2_Witness ==
    /\ Handled("room_message")
    /\ seen.peer.peer_id \in seen.room.members
    /\ \E i \in 1..Len(out) : out[i].ok
    /\ \E c \in Registered :
          /\ conn[c] = "open"
          /\ peerInfo[c].peer_id \notin MembersOf(rooms, req.room_id)
          /\ c \notin Addressed("room_message")

(* ------------------------------ C3 ------------------------------------- *)

\* The last handler sent an error event to the requester.
ErrorToRequester ==
    \E i \in 1..Len(out) : out[i].to = req.ws /\ out[i].ev.type = "error"

\* C3: a room_join naming an existing room, by a peer that is not the
\* room's creator and holds no outstanding invite for it, gets an error and
\* leaves the room's members as they were.
C3_JoinNeedsInvite ==
    [][ LET me == peerInfo[req'.ws]
        IN  ( /\ req'.type = "room_join"
              /\ me # NoPeer
              /\ HasRoom(rooms, req'.room_id)
              /\ <<req'.room_id, me.peer_id>> \notin hist.creator \cup hist.invited )
            => /\ ErrorToRequester'
               /\ MembersOf(rooms', req'.room_id) = MembersOf(rooms, req'.room_id)
      ]_vars

(* ------------------------------ C4 ------------------------------------- *)

\* C4: a room_invite by a peer that is not a member of the named room gets
\* an error, and no room_invite event is sent to anyone.
C4_NonMemberInviteRejected ==
    ( /\ Handled("room_invite")
      /\ seen.room # NoRoom
      /\ seen.peer.peer_id \notin seen.room.members )
    => /\ ErrorToRequester
       /\ Addressed("room_invite") = {}

(* ------------------------------ C5 ------------------------------------- *)

\* C5: after the close listener of a connection with a session has run, the
\* peer_id is in no room's members; a room it was the last member of is
\* gone; a room with other members is still there with one member fewer
\* (and a room it was not in is untouched); every connection still in the
\* registry is addressed exactly one peer_left for that peer.
C5_DisconnectCascade ==
    [][ LET me == peerInfo[req'.ws]
        IN  (req'.type = "close" /\ me # NoPeer)
            => /\ \A id \in LiveRoomIds(rooms') :
                     me.peer_id \notin MembersOf(rooms', id)
               /\ \A id \in LiveRoomIds(rooms) :
                     LET before == MembersOf(rooms, id)
                     IN  IF before = {me.peer_id}
                         THEN ~HasRoom(rooms', id)
                         ELSE /\ HasRoom(rooms', id)
                              /\ MembersOf(rooms', id) = before \ {me.peer_id}
               /\ \A c \in Registered' :
                     Cardinality({j \in 1..Len(out') :
                         /\ out'[j].to = c
                         /\ out'[j].ev.type = "peer_left"
                         /\ out'[j].ev.peer_id = me.peer_id}) = 1
      ]_vars

(* ------------------------------ C6 ------------------------------------- *)

\* The last step removed peer me from room id: a room_leave naming it, or
\* the close of a connection whose peerInfo.rooms holds it.
EmptiedBy(me, id) ==
    /\ me # NoPeer
    /\ MembersOf(rooms, id) = {me.peer_id}
    /\ \/ req'.type = "room_leave" /\ req'.room_id = id
       \/ req'.type = "close" /\ id \in me.rooms

\* C6: every room in the directory has at least one member, and the step
\* that removes a room's last member (room_leave or close) deletes the room.
C6_NoEmptyRoom ==
    /\ [](\A i \in 1..Len(rooms) : rooms[i].members # {})
    /\ [][ \A id \in LiveRoomIds(rooms) :
              EmptiedBy(peerInfo[req'.ws], id) => ~HasRoom(rooms', id) ]_vars

\* A room_leave by the only member of a room: the room is gone.
C6_Witness ==
    /\ Handled("room_leave")
    /\ seen.room # NoRoom
    /\ seen.room.members = {seen.peer.peer_id}
    /\ ~HasRoom(rooms, req.room_id)

(* ------------------------------ C7 ------------------------------------- *)

\* C7: in the worker relay no two connections in the registry have the same
\* nick.
C7_WorkerNicksUnique ==
    relay = "worker" =>
        \A c, d \in Registered :
            c # d => peerInfo[c].nick # peerInfo[d].nick

\* A join asked for a nick another registered session has, and was given
\* the suffixed one.
C7_Witness ==
    /\ relay = "worker"
    /\ req.type = "join"
    /\ req.nick = "Ann"
    /\ peerInfo[req.ws].nick = "Ann2"
    /\ \E d \in Registered \ {req.ws} : peerInfo[d].nick = "Ann"

(* ------------------------------ C8 ------------------------------------- *)

\* C8: the members of every room are exactly the peers that created it or
\* joined it by consuming an invite, and have not left or disconnected.
C8_MembersAreCreatorOrInvited ==
    \A i \in 1..Len(rooms) :
        rooms[i].members = {p \in PeerIds : <<rooms[i].room_id, p>> \in hist.joined}

(* ------------------------------ C9 ------------------------------------- *)

\* C9: a peer that consumed its invite for a room and has left the room
\* cannot join again without a new invite: the room_join gets an error and
\* the peer stays out.
C9_InviteSingleUse ==
    [][ LET me == peerInfo[req'.ws]
            pair == <<req'.room_id, me.peer_id>>
        IN  ( /\ req'.type = "room_join"
              /\ me # NoPeer
              /\ HasRoom(rooms, req'.room_id)
              /\ pair \in hist.used
              /\ pair \notin hist.invited \cup hist.creator
              /\ me.peer_id \notin MembersOf(rooms, req'.room_id) )
            => /\ ErrorToRequester'
               /\ me.peer_id \notin MembersOf(rooms', req'.room_id)
      ]_vars

(* ------------------------------ C10 ------------------------------------ *)

\* C10: a room_invite request makes the relay send at most one event, a
\* room_invite, to a registered connection whose session has the target
\* peer_id; when no registered session has it, nothing is sent.
C10_InviteUnicast ==
    req.type = "room_invite" =>
        /\ Len(out) <= 1
        /\ \A i \in 1..Len(out) :
              /\ out[i].ev.type = "room_invite"
              /\ out[i].ev.room_id = req.room_id
              /\ out[i].to \in Registered
              /\ peerInfo[out[i].to].peer_id = req.peer_id
        /\ (\A c \in Registered : peerInfo[c].peer_id # req.peer_id) => out = <<>>

\* A member invited a peer: the invite reached the target, and a third
\* connection, itself a member of the room, got nothing.
C10_Witness ==
    /\ Handled("room_invite")
    /\ seen.peer.peer_id \in seen.room.members
    /\ Len(out) = 1
    /\ out[1].ok
    /\ out[1].to # req.ws
    /\ \E c \in Registered \ {req.ws, out[1].to} :
          /\ conn[c] = "open"
          /\ peerInfo[c].peer_id \in seen.room.members

(* ------------------------------ C11 ------------------------------------ *)

\* C11: a room_leave that names an existing room, from a session whose
\* peer_id is not in the room's members, changes no room, no session's rooms
\* and not the set of rooms, and no event is addressed to any connection.
C11_NonMemberLeaveNoOp ==
    [][ LET me == peerInfo[req'.ws]
        IN  ( /\ req'.type = "room_leave"
              /\ me # NoPeer
              /\ HasRoom(rooms, req'.room_id)
              /\ me.peer_id \notin MembersOf(rooms, req'.room_id) )
            => /\ rooms' = rooms
               /\ peerInfo' = peerInfo
               /\ out' = <<>>
      ]_vars

(* ------------------------------ C12 ------------------------------------ *)

\* The request kinds other than join.
NonJoinKinds ==
    {"message", "room_create", "room_join", "room_invite", "room_message",
     "room_leave", "room_list"}

\* C12: a request other than join on a connection that has no session
\* changes neither the registry nor the directory, and no event is addressed
\* to any connection, the requester included.
C12_NoSessionDropped ==
    [][ (req'.type \in NonJoinKinds /\ peerInfo[req'.ws] = NoPeer)
            => /\ peers' = peers
               /\ peerInfo' = peerInfo
               /\ rooms' = rooms
               /\ out' = <<>>
      ]_vars

(* ------------------------------ C13 ------------------------------------ *)

\* C13: while a connection has a session, no request on any connection
\* changes that session's peer_id or nick, and a join on the connection
\* itself leaves its whole session (rooms included) as it was; only the
\* close listener ends the session.
C13_SessionNotReplaced ==
    [][ \A c \in Conns :
            (peerInfo[c] # NoPeer /\ ~(req'.type = "close" /\ req'.ws = c))
            => /\ peerInfo'[c].peer_id = peerInfo[c].peer_id
               /\ peerInfo'[c].nick = peerInfo[c].nick
               /\ (req'.type = "join" /\ req'.ws = c) => peerInfo'[c] = peerInfo[c]
      ]_vars

(* ------------------------------ C14 ------------------------------------ *)

\* C14: a room_join, from a connection with a session, that names a room
\* that does not exist makes the relay attempt exactly one write, an error
\* event to the requester, and changes neither the registry, nor any
\* session (the room id is not added to the requester's rooms), nor the
\* directory.
C14_JoinUnknownRoom ==
    [][ ( /\ req'.type = "room_join"
          /\ peerInfo[req'.ws] # NoPeer
          /\ ~HasRoom(rooms, req'.room_id) )
        => /\ Len(out') = 1
           /\ out'[1].to = req'.ws
           /\ out'[1].ev.type = "error"
           /\ out'[1].ok
           /\ peers' = peers
           /\ peerInfo' = peerInfo
           /\ rooms' = rooms
      ]_vars

\* A room_join of a room that does not exist was answered with an error
\* while another session was registered and writable; that one got nothing.
C14_Witness ==
    /\ Handled("room_join")
    /\ seen.room = NoRoom
    /\ ErrorToRequester
    /\ req.room_id \notin peerInfo[req.ws].rooms
    /\ \E c \in Registered \ {req.ws} :
          conn[c] = "open" /\ c \notin {out[i].to : i \in 1..Len(out)}

(* ------------------------------ C15 ------------------------------------ *)

\* The peers of a room that are connected: the member peer_ids that the
\* session of some connection carries (whether or not the registry still
\* holds that connection).
ConnectedMembers(room_id) ==
    {p \in MembersOf(rooms, room_id) :
        \E c \in Conns : peerInfo[c].peer_id = p}

\* C15: the room_list reply has exactly one entry per room of the directory
\* and none for any other room id, and the members value of each entry is
\* the number of connected peers that are members of that room.
C15_RoomListExact ==
    req.type = "room_list" =>
        /\ Len(out) = 1
        /\ out[1].to = req.ws
        /\ out[1].ev.type = "room_list"
        /\ LET list == out[1].ev.rooms
           IN  /\ {list[i].room_id : i \in 1..Len(list)} = LiveRoomIds(rooms)
               /\ \A i, j \in 1..Len(list) :
                     list[i].room_id = list[j].room_id => i = j
               /\ \A i \in 1..Len(list) :
                     list[i].members =
                         Cardinality(ConnectedMembers(list[i].room_id))

(* ------------------------------ C16 ------------------------------------ *)

\* The events of this type that the last handler addressed.
EventsOf(type) == {out[i].ev : i \in {j \in 1..Len(out) : out[j].ev.type = type}}

\* C16: after a join on a connection that had no session, the connection
\* has a session in the registry (with the peer_id the request carried, if
\* it carried one); the joiner is addressed exactly one welcome, which
\* carries the session's peer_id and its final nick; every other registered
\* connection, and no one else, is addressed exactly one peer_joined, which
\* carries the same peer_id and nick.
C16_JoinAnnounced ==
    (req.type = "join" /\ seen.peer = NoPeer) =>
        LET me == peerInfo[req.ws]
        IN  /\ me # NoPeer
            /\ req.ws \in Registered
            /\ req.peer_id # "" => me.peer_id = req.peer_id
            /\ \A c \in Conns :
                  /\ CountTo("welcome", c) = IF c = req.ws THEN 1 ELSE 0
                  /\ CountTo("peer_joined", c) =
                        IF c \in Registered \ {req.ws} THEN 1 ELSE 0
            /\ \A ev \in EventsOf("welcome") :
                  /\ ev.peer_id = me.peer_id
                  /\ "nick" \in DOMAIN ev
                  /\ ev.nick = me.nick
            /\ \A ev \in EventsOf("peer_joined") :
                  ev.peer_id = me.peer_id /\ ev.nick = me.nick

(* ------------------------------ C17 ------------------------------------ *)

\* C17: a room_join of an existing room by a connection with a session
\* adds the session's peer_id to the room's members and the room id to the
\* session's rooms; the joiner is addressed exactly one room_joined and no
\* one else any; every other registered connection whose peer_id is a
\* member is addressed exactly one room_peer_joined naming the joiner, and
\* a connection whose peer is not in the room is addressed nothing.
C17_RoomJoinEffect ==
    [][ LET ws == req'.ws
            id == req'.room_id
            me == peerInfo[ws]
        IN  (req'.type = "room_join" /\ me # NoPeer /\ HasRoom(rooms, id))
            => /\ MembersOf(rooms', id) = MembersOf(rooms, id) \cup {me.peer_id}
               /\ peerInfo'[ws].rooms = me.rooms \cup {id}
               /\ \A c \in Conns :
                     (CountTo("room_joined", c))' = IF c = ws THEN 1 ELSE 0
               /\ \A c \in Conns \ {ws} :
                     (CountTo("room_peer_joined", c))' =
                        IF /\ c \in Registered
                           /\ peerInfo[c].peer_id \in MembersOf(rooms', id)
                        THEN 1 ELSE 0
               /\ \A i \in 1..Len(out') :
                     /\ out'[i].ev.type \in {"room_joined", "room_peer_joined"}
                     /\ out'[i].ev.room_id = id
                     /\ peerInfo'[out'[i].to].peer_id \in MembersOf(rooms', id)
                     /\ out'[i].ev.type = "room_peer_joined" =>
                            out'[i].ev.peer_id = me.peer_id
      ]_vars

\* A peer joined a room it was not in: a member got room_peer_joined on the
\* wire, the joiner got room_joined, and a registered, writable connection
\* outside the room got nothing.
C17_Witness ==
    /\ Handled("room_join")
    /\ seen.room # NoRoom
    /\ seen.peer.peer_id \notin seen.room.members
    /\ seen.peer.peer_id \in MembersOf(rooms, req.room_id)
    /\ CountTo("room_joined", req.ws) = 1
    /\ \E i \in 1..Len(out) :
          /\ out[i].to # req.ws
          /\ out[i].ev.type = "room_peer_joined"
          /\ out[i].ok
    /\ \E c \in Registered :
          /\ conn[c] = "open"
          /\ peerInfo[c].peer_id \notin MembersOf(rooms, req.room_id)
          /\ c \notin {out[i].to : i \in 1..Len(out)}

(* ------------------------------ C18 ------------------------------------ *)

\* C18: a room_leave by a session whose peer_id is a member of the named
\* room removes the peer_id from the room's members and the room id from
\* the session's rooms.  If members remain, the room stays, and exactly the
\* registered connections whose peer_id is a remaining member are addressed
\* one room_peer_left naming the leaver (so neither the leaver nor a
\* non-member is); if none remains, the room is deleted and nothing is sent.
C18_RoomLeaveEffect ==
    [][ LET ws == req'.ws
            id == req'.room_id
            me == peerInfo[ws]
            remaining == MembersOf(rooms, id) \ {me.peer_id}
        IN  ( /\ req'.type = "room_leave"
              /\ me # NoPeer
              /\ HasRoom(rooms, id)
              /\ me.peer_id \in MembersOf(rooms, id) )
            => /\ MembersOf(rooms', id) = remaining
               /\ peerInfo'[ws].rooms = me.rooms \ {id}
               /\ IF remaining = {}
                  THEN ~HasRoom(rooms', id) /\ out' = <<>>
                  ELSE /\ HasRoom(rooms', id)
                       /\ \A c \in Conns :
                             (CountTo("room_peer_left", c))' =
                                IF /\ c \in Registered
                                   /\ peerInfo'[c].peer_id \in remaining
                                THEN 1 ELSE 0
                       /\ \A i \in 1..Len(out') :
                             /\ out'[i].to # ws
                             /\ out'[i].ev.type = "room_peer_left"
                             /\ out'[i].ev.room_id = id
                             /\ out'[i].ev.peer_id = me.peer_id
      ]_vars

\* A member left a room that another member stays in: the one who stays got
\* room_peer_left on the wire; the leaver and a registered, writable
\* connection outside the room got nothing.
C18_Witness ==
    /\ Handled("room_leave")
    /\ seen.peer.peer_id \in seen.room.members
    /\ HasRoom(rooms, req.room_id)
    /\ req.room_id \notin peerInfo[req.ws].rooms
    /\ \E i \in 1..Len(out) : out[i].ev.type = "room_peer_left" /\ out[i].ok
    /\ req.ws \notin {out[i].to : i \in 1..Len(out)}
    /\ \E c \in Registered \ {req.ws} :
          /\ conn[c] = "open"
          /\ peerInfo[c].peer_id \notin seen.room.members
          /\ c \notin {out[i].to : i \in 1..Len(out)}

(* ------------------------------ C19 ------------------------------------ *)

\* C19: a room_create by a connection with a session adds exactly one room
\* to the directory, under an id no existing room has; its members are
\* exactly the creator's peer_id; the id is added to the creator's rooms
\* and no other session changes; every room that existed keeps its members;
\* the creator, and no one else, is addressed one room_created naming the
\* new id, and every registered connection is addressed one peers summary.
C19_RoomCreateEffect ==
    [][ LET ws == req'.ws
            me == peerInfo[ws]
            made == LiveRoomIds(rooms') \ LiveRoomIds(rooms)
        IN  (req'.type = "room_create" /\ me # NoPeer)
            => /\ Len(rooms') = Len(rooms) + 1
               /\ Cardinality(LiveRoomIds(rooms')) = Len(rooms')
               /\ Cardinality(made) = 1
               /\ \A id \in made :
                     /\ MembersOf(rooms', id) = {me.peer_id}
                     /\ peerInfo'[ws].rooms = me.rooms \cup {id}
                     /\ \A i \in 1..Len(out') :
                           out'[i].ev.type = "room_created" =>
                              out'[i].ev.room_id = id
               /\ \A id \in LiveRoomIds(rooms) :
                     MembersOf(rooms', id) = MembersOf(rooms, id)
               /\ \A c \in Conns \ {ws} : peerInfo'[c] = peerInfo[c]
               /\ peers' = peers
               /\ \A c \in Conns :
                     /\ (CountTo("room_created", c))' = IF c = ws THEN 1 ELSE 0
                     /\ (CountTo("peers", c))' = IF c \in Registered THEN 1 ELSE 0
               /\ \A i \in 1..Len(out') :
                     out'[i].ev.type \in {"room_created", "peers"}
      ]_vars

\* A room was created while another room, with another peer in it, existed:
\* the older room is as it was, the new one holds the creator only, and
\* another registered connection got the peers summary on the wire.
C19_Witness ==
    /\ Handled("room_create")
    /\ Len(rooms) = 2
    /\ rooms[2].members = {seen.peer.peer_id}
    /\ rooms[2].room_id # rooms[1].room_id
    /\ \E p \in rooms[1].members : p # seen.peer.peer_id
    /\ CountTo("room_created", req.ws) = 1
    /\ \E i \in 1..Len(out) :
          out[i].to # req.ws /\ out[i].ev.type = "peers" /\ out[i].ok

(* ------------------------------ C20 ------------------------------------ *)

\* C20: a message request on a connection with a session changes neither
\* the registry, nor any session, nor the directory; every registered
\* connection other than the sender's is addressed exactly one message
\* event, which carries the sender's peer_id and nick and the data sent;
\* the sender and every connection without a session are addressed nothing.
C20_MessageBroadcast ==
    [][ LET ws == req'.ws
            me == peerInfo[ws]
        IN  (req'.type = "message" /\ me # NoPeer)
            => /\ peers' = peers
               /\ peerInfo' = peerInfo
               /\ rooms' = rooms
               /\ \A c \in Conns :
                     (CountTo("message", c))' =
                        IF c \in Registered /\ c # ws THEN 1 ELSE 0
               /\ \A i \in 1..Len(out') :
                     /\ out'[i].to # ws
                     /\ peerInfo[out'[i].to] # NoPeer
                     /\ out'[i].ev.type = "message"
                     /\ out'[i].ev.from = me.peer_id
                     /\ out'[i].ev.nick = me.nick
                     /\ out'[i].ev.data = req'.data
      ]_vars

\* A message was sent: another session got it on the wire, and an open
\* connection that has not joined got nothing.
C20_Witness ==
    /\ Handled("message")
    /\ \E i \in 1..Len(out) : out[i].ev.type = "message" /\ out[i].ok
    /\ req.ws \notin {out[i].to : i \in 1..Len(out)}
    /\ \E c \in Conns :
          /\ conn[c] = "open"
          /\ peerInfo[c] = NoPeer
          /\ c \notin {out[i].to : i \in 1..Len(out)}

(* ------------------------------ C21 ------------------------------------ *)

C22_PeerIdsUnique ==
    \A c, d \in Registered :
        c # d => peerInfo[c].peer_id # peerInfo[d].peer_id

(* ------------------------------ C23 ------------------------------------ *)

\* C23: a step taken for connection x (a request on x, or x's close or
\* error event) leaves the session of every other connection y as it was
\* (peer_id, nick and rooms), keeps y's peer_id in every room's members it
\* was in, and deletes no room that y's session lists.
C23_OtherSessionsUntouched ==
    [][ \A y \in Conns \ {req'.ws} :
            peerInfo[y] # NoPeer
            => /\ peerInfo'[y] = peerInfo[y]
               /\ \A id \in LiveRoomIds(rooms) :
                     peerInfo[y].peer_id \in MembersOf(rooms, id)
                        => peerInfo[y].peer_id \in MembersOf(rooms', id)
               /\ \A id \in peerInfo[y].rooms :
                     HasRoom(rooms, id) => HasRoom(rooms', id)
      ]_vars

(* ------------------------------ C24 ------------------------------------ *)

\* The request kinds that name a room.
RoomKinds == {"room_join", "room_invite", "room_message", "room_leave"}

\* C24: a room_join, room_invite, room_message or room_leave, from a
\* connection with a session, that names a room that does not exist makes
\* the relay send exactly one event, an error, to the requester.
C24_UnknownRoomError ==
    ( /\ req.type \in RoomKinds
      /\ seen.peer # NoPeer
      /\ seen.room = NoRoom )
    => /\ Len(out) = 1
       /\ out[1].to = req.ws
       /\ out[1].ev.type = "error"

(* ------------------------------ C29 ------------------------------------ *)

\* C29: a room_message from a session whose peer_id is not a member of the
\* named room, or that names a room that does not exist, makes the relay
\* address no event to any connection.
C29_NonMemberMessageDropped ==
    ( /\ Handled("room_message")
      /\ seen.peer.peer_id \notin seen.room.members )
    => out = <<>>

(* ------------------------------ C25 ------------------------------------ *)

\* C25: in the worker relay the nick of every session is at most 24
\* characters long.
C25_NickWithinLimit ==
    relay = "worker" =>
        \A c \in Conns : Len(peerInfo[c].nick) <= NickLimit

(* ------------------------------ C26 ------------------------------------ *)

\* C26: in every state, given the same request, the worker relay and the
\* node relay do the same: a join is assigned the same nick and answered
\* with the same welcome (same fields, same values), a room_create stores
\* the same room name, and a room_join of an unknown room is answered with
\* the same error event.
C26_RelaysAgree ==
    [][ LET ws == req'.ws
        IN  /\ req'.type = "join" =>
                 LET w == NickOf("worker", req'.nick)
                     n == NickOf("node", req'.nick)
                     peer_id == peerInfo'[ws].peer_id
                 IN  /\ w = n
                     /\ WelcomeOf("worker", peer_id, w, peers', peerInfo')
                          = WelcomeOf("node", peer_id, n, peers', peerInfo')
            /\ (req'.type = "room_create" /\ peerInfo[ws] # NoPeer) =>
                 RoomNameOf("worker", req'.name) = RoomNameOf("node", req'.name)
            /\ ( /\ req'.type = "room_join"
                 /\ peerInfo[ws] # NoPeer
                 /\ ~HasRoom(rooms, req'.room_id) ) =>
                 NotFoundMessageOf("worker", req'.room_id)
                    = NotFoundMessageOf("node", req'.room_id)
      ]_vars

(* ------------------------------ C27 ------------------------------------ *)

\* C27: the close listener of a connection with a session removes the
\* session's peer_id from every room the session lists, removes the
\* connection from the registry, and then addresses exactly one peer_left
\* for that peer to every connection still in the registry: nothing else is
\* sent (no room_peer_left), and nothing is sent to the closing connection.
C27_CloseOrder ==
    [][ LET ws == req'.ws
            me == peerInfo[ws]
        IN  (req'.type = "close" /\ me # NoPeer)
            => /\ \A id \in me.rooms : me.peer_id \notin MembersOf(rooms', id)
               /\ peers' = MapDelete(peers, ws)
               /\ \A c \in Conns :
                     (CountTo("peer_left", c))' = IF c \in Registered' THEN 1 ELSE 0
               /\ \A i \in 1..Len(out') :
                     /\ out'[i].ev.type = "peer_left"
                     /\ out'[i].ev.peer_id = me.peer_id
                     /\ out'[i].to # ws
      ]_vars

\* A connection in two rooms closed: the room it shared with another peer
\* is still there without it, the room it was alone in is gone, and the
\* other peer got one peer_left on the wire and no room_peer_left.
C27_Witness ==
    /\ req.type = "close"
    /\ Cardinality(seen.peer.rooms) = 2
    /\ Len(rooms) = 1
    /\ rooms[1].room_id \in seen.peer.rooms
    /\ seen.peer.peer_id \notin rooms[1].members
    /\ req.ws \notin Registered
    /\ \E i \in 1..Len(out) :
          /\ out[i].ev.type = "peer_left"
          /\ out[i].ok
          /\ peerInfo[out[i].to].peer_id \in rooms[1].members
    /\ \A i \in 1..Len(out) : out[i].ev.type # "room_peer_left"

(* ------------------------------ C28 ------------------------------------ *)

\* C28: a connection whose session exists is in the registry, and a
\* connection leaves the registry only in the step of its own close
\* listener, which leaves its peer_id in no room's members and addresses a
\* peer_left for it to the connections that remain.
C28_DeregisteredOnlyByClose ==
    /\ [](\A c \in Conns : peerInfo[c] # NoPeer => c \in Registered)
    /\ [][ \A c \in Registered \ Registered' :
              /\ req'.type = "close"
              /\ req'.ws = c
              /\ \A id \in LiveRoomIds(rooms') :
                    peerInfo[c].peer_id \notin MembersOf(rooms', id)
              /\ \A d \in Registered' :
                    \E i \in 1..Len(out') :
                       /\ out'[i].to = d
                       /\ out'[i].ev.type = "peer_left"
                       /\ out'[i].ev.peer_id = peerInfo[c].peer_id
         ]_vars

(* ------------------------------ C30 ------------------------------------ *)

\* C30: whenever no connection has a session, the directory holds no room.
C30_NoSessionNoRoom ==
    (\A c \in Conns : peerInfo[c] = NoPeer) => rooms = <<>>

(* ------------------------------ C32 ------------------------------------ *)

\* The requested nick after defaulting and truncation.
BaseNick(nickIn) == Slice(IF nickIn # "" THEN nickIn ELSE "Anonymous", NickLimit)

\* The nicks of the sessions in the registry.
NicksInUse == {peerInfo[c].nick : c \in Registered}

\* The smallest k >= 2 such that base followed by k is not in taken.
SmallestFreeSuffix(base, taken) ==
    CHOOSE k \in 2..(Cardinality(taken) + 2) :
        /\ base \o ToString(k) \notin taken
        /\ \A j \in 2..(k - 1) : base \o ToString(j) \in taken

C39_NickLoopTerminates ==
    relay = "worker" =>
        \A nickIn \in NickCases :
            LET base == BaseNick(nickIn)
                run == NickLoopWithin(base, base, 2, NicksInUse,
                                      Cardinality(NicksInUse))
            IN  /\ run.done
                /\ run.nick = NickOf("worker", nickIn)

\* A registry for which the loop runs three times on "Ann": the sessions
\* hold "Ann", "Ann2" and "Ann3".
C39_Witness ==
    /\ relay = "worker"
    /\ req.type = "join"
    /\ {"Ann", "Ann2", "Ann3"} \subseteq NicksInUse

(* ------------------------------ C35 ------------------------------------ *)

\* C35: when a room_join succeeds (session present, room exists), the
\* joiner's own connection is addressed a room_peer_joined event for its
\* own peer_id, written to its socket, and that event comes before the
\* room_joined confirmation addressed to it.
C35_JoinerHearsOwnJoin ==
    (Handled("room_join") /\ seen.room # NoRoom) =>
        \E i, j \in 1..Len(out) :
            /\ i < j
            /\ out[i].to = req.ws
            /\ out[i].ok
            /\ out[i].ev.type = "room_peer_joined"
            /\ out[i].ev.peer_id = seen.peer.peer_id
            /\ out[j].to = req.ws
            /\ out[j].ev.type = "room_joined"

(* ------------------------------ C36 ------------------------------------ *)

TargetsOf(o, type) ==
    LET sel == SelectSeq(o, LAMBDA e : e.ev.type = type)
    IN  [i \in 1..Len(sel) |-> sel[i].to]

\* C33: a write to a connection that is not writable is skipped and nothing
\* else: every attempted write reaches the wire iff its socket is open, no
\* event is addressed to the same connection twice, a broadcast addresses
\* all its recipients in registry order whatever their sockets' state
\* (message: the registry without the sender; the peers summary of
\* room_create: the registry; peer_left of close: the registry without the
\* closed connection), and the handler's changes of registry and directory
\* are made all the same.
C33_UnwritableSkipped ==
    [][/\ \A i \in 1..Len(out') : out'[i].ok = (conn[out'[i].to] = "open")
       /\ \A i, j \in 1..Len(out') :
             (out'[i].to = out'[j].to /\ out'[i].ev = out'[j].ev) => i = j
       /\ (req'.type = "message" /\ peerInfo[req'.ws] # NoPeer) =>
             /\ TargetsOf(out', "message") = MapDelete(peers, req'.ws)
             /\ UNCHANGED <<peers, peerInfo, rooms>>
       /\ (req'.type = "room_create" /\ peerInfo[req'.ws] # NoPeer) =>
             /\ TargetsOf(out', "peers") = peers
             /\ Len(rooms') = Len(rooms) + 1
             /\ peerInfo'[req'.ws].rooms # peerInfo[req'.ws].rooms
       /\ (req'.type = "close" /\ peerInfo[req'.ws] # NoPeer) =>
             /\ TargetsOf(out', "peer_left") = MapDelete(peers, req'.ws)
             /\ peers' = MapDelete(peers, req'.ws)
             /\ \A r \in peerInfo[req'.ws].rooms :
                   req'.peer_id \notin MembersOf(rooms', r)
      ]_vars

\* A chat message whose first recipient's socket was not writable and whose
\* next recipient got it.
C33_Witness ==
    /\ Handled("message")
    /\ \E i, j \in 1..Len(out) : i < j /\ ~out[i].ok /\ out[j].ok

(* ------------------------------ C34 ------------------------------------ *)

\* The event lists exactly the sessions of the registry and the rooms of
\* the directory of the current state, each room with its member count.
ListsCurrentState(ev) ==
    /\ Len(ev.peers) = Len(peers)
    /\ \A k \in 1..Len(peers) :
          /\ ev.peers[k].peer_id = peerInfo[peers[k]].peer_id
          /\ ev.peers[k].nick = peerInfo[peers[k]].nick
    /\ Len(ev.rooms) = Len(rooms)
    /\ \A k \in 1..Len(rooms) :
          /\ ev.rooms[k].room_id = rooms[k].room_id
          /\ ev.rooms[k].members = Cardinality(rooms[k].members)

\* C34: after a join, the welcome lists the state the join left: every
\* session of the registry, the joiner's among them, and every room with
\* its member count; after a room_create, the peers summary lists the state
\* the creation left, with the new room at one member.
C34_EventsShowPostState ==
    /\ req.type = "join" =>
          /\ CountTo("welcome", req.ws) = 1
          /\ \A i \in 1..Len(out) : out[i].ev.type = "welcome" =>
                /\ ListsCurrentState(out[i].ev)
                /\ \E k \in 1..Len(out[i].ev.peers) :
                      out[i].ev.peers[k].peer_id = peerInfo[req.ws].peer_id
    /\ Handled("room_create") =>
          /\ out[1].ev.type = "room_created"
          /\ \A i \in 1..Len(out) : out[i].ev.type = "peers" =>
                /\ ListsCurrentState(out[i].ev)
                /\ \E k \in 1..Len(out[i].ev.rooms) :
                      /\ out[i].ev.rooms[k].room_id = out[1].ev.room_id
                      /\ out[i].ev.rooms[k].members = 1

\* A join whose welcome lists three sessions and a room.
C34_Witness ==
    /\ req.type = "join"
    /\ Len(peers) = 3
    /\ Len(rooms) = 1
    /\ \E i \in 1..Len(out) :
          /\ out[i].ev.type = "welcome"
          /\ Len(out[i].ev.peers) = 3
          /\ Len(out[i].ev.rooms) = 1

(* ------------------------------ C31 ------------------------------------ *)

\* The peer ids of the sessions in the registry.
RegisteredPeerIds == {peerInfo[c].peer_id : c \in Registered}

\* C31: for every connection that has joined and whose socket is open, the
\* peer list its client has built from the welcome, peer_joined and
\* peer_left events written to it is the set of sessions in the registry:
\* every peer_joined it got is undone by a peer_left once the session that
\* was announced is gone.
C31_ViewMatchesRegistry ==
    \A c \in Conns :
        (conn[c] = "open" /\ peerInfo[c] # NoPeer) =>
            view[c] = RegisteredPeerIds

(* ------------------------------ C37 ------------------------------------ *)

\* C37: in the web client's socket module, as long as the application has
\* called connect once and never disconnect, every event received from the
\* relay is dispatched to the onEvent callback exactly once, however many
\* automatic reconnects came before it.
C37_DispatchedOnce ==
    (client.app = "in" /\ client.logins = 1 /\ client.dispatched.type = "event")
        => client.dispatched.count = 1

(* ------------------------------ C38 ------------------------------------ *)

\* C38: once the application has called disconnect, and until it calls
\* connect again, the socket module creates no socket: neither the close
\* event of the socket that disconnect closed nor a reconnect timer opens a
\* connection.
C38_NoReconnectAfterDisconnect ==
    [][(client.app = "out" /\ client'.app = "out")
          => Created(client') = Created(client)]_vars

====
